---- MODULE Spec2Model ----
(***************************************************************************)
(* A model of memer's caption rendering: MemeText validation, the text     *)
(* measurer (_get_text_size), the fit predicate (_line_fits), the          *)
(* ascending font-size search (_determine_font_size), create_meme, the     *)
(* compositor (_add_text_to_image) and the `create` command that drives    *)
(* them.                                                                   *)
(*                                                                         *)
(* PIL is outside the repository.  The font backend is modelled as an      *)
(* arbitrary function from (text, font size) to a bounding-box result,     *)
(* fixed for one run (measurement is a pure function of text and font),    *)
(* and the image as the list of draws made onto it.                        *)
(***************************************************************************)
EXTENDS Integers, Sequences, FiniteSets, TLC

\* ------------------------------------------------------------------ bounds

\* The largest font size the search may step to; the backend answers for
\* sizes 1..MaxSize+1, so a search can fail to fit at MaxSize+1.
MaxSize == 2

\* The largest x2 / y2 of a bounding box the backend reports.
MaxDim == 2

\* The largest descent the font reports.
MaxDescent == 1

\* ------------------------------------------------------------------ values

\* Python's None where a caption (str | None) is expected; no caption text
\* of the model is this string.
None == "None"

\* The caption texts of the model: the empty string and two non-empty texts.
Texts == {"", "A", "B"}

\* An optional font handle (ImageFont.FreeTypeFont | None): the empty set is
\* None, {s} is the font resource instantiated at size s.
NoFont == {}

FontAt(size) == {size}

SizeOf(f) == CHOOSE s \in f : TRUE

Sizes == 1..(MaxSize + 1)

\* What font.getmask(text).getbbox() can hand back: None, a box whose x2 is
\* not a float or int, or a numeric box (only x2 and y2 are read).
BBoxResults ==
    {[kind |-> "none", x2 |-> 0, y2 |-> 0], [kind |-> "nonnum", x2 |-> 0, y2 |-> 0]}
    \cup {[kind |-> "num", x2 |-> w, y2 |-> h] : w \in 1..MaxDim, h \in 1..MaxDim}

\* No exception pending.
NoExc == [type |-> "none", msg |-> ""]

TypeErrorNone == [type |-> "TypeError", msg |-> "'NoneType' object is not subscriptable"]

MeasurementError ==
    [type |-> "MemeGenerationError", msg |-> "Both width and height should be floats."]

FitExhaustionError ==
    [type |-> "MemeGenerationError", msg |-> "No font size matched for meme."]

ValidationError ==
    [type |-> "MemeGenerationError",
     msg |-> "At least one of 'top_text' or 'bottom_text' must be provided and not empty."]

KeyErrorTemplate == [type |-> "KeyError", msg |-> "template_name"]

\* No call of core/validation.py is made, and none has ended.
NoValidation == [fn |-> "none"]

NoOutcome == [kind |-> "pending"]

VARIABLES
    top_text,       \* MemeText.top_text / the command's --top-text
    bottom_text,    \* MemeText.bottom_text / the command's --bottom-text
    meme_font,      \* MemeText.font
    image,          \* [width, height]: the caller's image
    margins,        \* text_configuration.margins: [vertical, horizontal]
    ratio_pct,      \* text_configuration.max_text_to_height_ratio, in hundredths
    backend,        \* [text -> [size -> bbox result]]: font.getmask(text).getbbox()
    descent,        \* font.getmetrics()[1]
    pc,             \* the program point
    ret,            \* where _determine_font_size returns to
    text,           \* _determine_font_size's text argument
    font_size,      \* _determine_font_size's font_size
    max_width,      \* _determine_font_size's max_width
    max_height,     \* _determine_font_size's max_height
    fonts_made,     \* sizes ImageFont.truetype was called with, in order
    measured,       \* every _get_text_size call, in order: its text, size and caller
    last_fit,       \* the last _line_fits call: what it measured and returned
    dfs_result,     \* what the last _determine_font_size returned
    font_size_candidates, \* create_meme's list
    font,           \* create_meme's font
    drawn,          \* the draw.text calls made onto the image, in order
    exc,            \* the exception that escaped, or NoExc
    entry,          \* who runs: the create command, or a caller of create_meme
    events,         \* the caller's steps and create_meme's calls so far, in order
    meme,           \* the image handle create_meme returned
    request,        \* core/validation.py: the function called and its arguments
    outcome,        \* core/validation.py: what the call returned or raised
    files,          \* settings: what each configuration file holds
    writable,       \* settings: whether the user configuration file can be written
    provider,       \* container: the FileConfigurationProvider's fields
    objects,        \* settings: how many Configuration objects were built
    history,        \* settings, container: the calls made and what they did
    disk,           \* settings: the template files that exist
    tconfig,        \* settings: the TemplatesConfiguration's fields and iteration orders
    cached,         \* settings: the cached discovered_templates, if computed
    scans,          \* settings: the files each computation came across, in order
    results,        \* settings: what each access of discovered_templates returned
    options,        \* pull: the command's options
    remote,         \* pull: how the server answers a request for each URL
    target_dir,     \* pull: what each file of the templates directory holds
    pull_pc,        \* pull: where the command is
    to_pull_list,   \* pull: to_pull_list
    remaining,      \* pull: the templates of to_pull_set not yet iterated
    attempts,       \* pull: the calls of pull_image_from_url and what they did
    failed_downloads, \* pull: failed_downloads
    reported        \* pull: the number printed as successfully pulled

vars == <<top_text, bottom_text, meme_font, image, margins, ratio_pct, backend, descent,
          pc, ret, text, font_size, max_width, max_height, fonts_made, measured,
          last_fit, dfs_result, font_size_candidates, font, drawn, exc, entry, events,
          meme, request, outcome, files, writable, provider, objects, history,
          disk, tconfig, cached, scans, results, options, remote, target_dir, pull_pc,
          to_pull_list, remaining, attempts, failed_downloads, reported>>

\* The variables of the caption rendering.
meme_vars == <<top_text, bottom_text, meme_font, image, margins, ratio_pct, backend,
               descent, pc, ret, text, font_size, max_width, max_height, fonts_made,
               measured, last_fit, dfs_result, font_size_candidates, font, drawn, exc,
               entry, events, meme>>

\* The variables of the input validation.
validation_vars == <<request, outcome>>

\* The variables of the configuration loading.
config_vars == <<files, writable, provider, objects, history>>

\* The variables of the template discovery.
discovery_vars == <<disk, tconfig, cached, scans, results>>

\* The variables of the pull command.
pull_vars == <<options, remote, target_dir, pull_pc, to_pull_list, remaining, attempts,
               failed_downloads, reported>>

\* The variables of the file-backed services.
system_vars == <<config_vars, discovery_vars, pull_vars>>

inputs == <<top_text, bottom_text, meme_font, image, margins, ratio_pct, backend, descent>>

\* ------------------------------------------------------------ pure helpers

\* Python's round(n / d) for d > 0: round half to even.
PyRound(n, d) ==
    LET q == n \div d
        r == n % d
    IN  IF 2 * r < d THEN q
        ELSE IF 2 * r > d THEN q + 1
        ELSE IF q % 2 = 0 THEN q ELSE q + 1

\* A width budget that takes off the margin of one side only.
MaxWidthOneMargin(img, m) == img.width - m.horizontal

\* max_width = image.width - 2 * margins.horizontal
MaxWidthOf(img, m) == img.width - 2 * m.horizontal

\* max_height = round(image.height * max_text_to_height_ratio)
MaxHeightOf(img, pct) == PyRound(img.height * pct, 100)

\* _get_text_size: the exception it raises (NoExc if none) and the size it
\* returns.  getbbox()[2] on None raises TypeError before the isinstance
\* check is reached; a non-numeric x2 reaches the check.
GetTextSize(bbox, desc) ==
    IF bbox.kind = "none"
    THEN [exc |-> TypeErrorNone, width |-> 0, height |-> 0]
    ELSE IF bbox.kind = "nonnum"
    THEN [exc |-> MeasurementError, width |-> 0, height |-> 0]
    ELSE [exc |-> NoExc, width |-> bbox.x2, height |-> bbox.y2 + desc]

\* One entry of the log of _get_text_size calls.
Measurement(t, s, caller) == [text |-> t, size |-> s, by |-> caller]

\* A height test that accepts a text exactly as high as the budget.
LineFitsSymmetric(text_width, text_height, mw, mh) ==
    text_width <= mw /\ text_height <= mh

\* _line_fits' return value for a measured size.
LineFits(text_width, text_height, mw, mh) ==
    LET width_fits == text_width <= mw
        height_fits == text_height < mh
    IN  width_fits /\ height_fits

\* The record of one _line_fits call on text t at size s.
LineFitsCall(t, s, mw, mh) ==
    LET m == GetTextSize(backend[t][s], descent)
    IN  [size |-> s, exc |-> m.exc, width |-> m.width, height |-> m.height,
         max_width |-> mw, max_height |-> mh,
         fits |-> m.exc = NoExc /\ LineFits(m.width, m.height, mw, mh)]

NoCall == [size |-> 0, exc |-> NoExc, width |-> 0, height |-> 0,
           max_width |-> 0, max_height |-> 0, fits |-> FALSE]

\* ------------------------------------------------- _determine_font_size

\* The size the search starts from.
InitialFontSize == 1

\* An initial check whose failure is ignored.
AfterInitialCheckIgnored(fits) == "dfs_loop"

\* Where the initial check sends control.
AfterInitialCheck(fits) == IF fits THEN "dfs_loop" ELSE "dfs_nofit"

\* A loop that steps by two.
NextFontSizeSkipping(s) == s + 2

\* The size the loop probes next.
NextFontSize(s) == s + 1

\* A return of the size that failed.
ReturnedSizeFailing(s) == s

\* A return one below the last size that fitted.
ReturnedSizeTooSmall(s) == s - 2

\* The value returned when the loop ends at size s.
ReturnedSize(s) == s - 1

\* Lines 274-277: the first font and the budget.
DfsStart ==
    /\ pc = "dfs_call"
    /\ font_size' = InitialFontSize
    /\ fonts_made' = Append(fonts_made, InitialFontSize)
    /\ max_width' = MaxWidthOf(image, margins)
    /\ max_height' = MaxHeightOf(image, ratio_pct)
    /\ pc' = "dfs_initial"
    /\ UNCHANGED validation_vars
    /\ UNCHANGED system_vars
    /\ UNCHANGED <<inputs, ret, text, measured, last_fit, dfs_result,
                   font_size_candidates, font, drawn, exc, entry, meme, events>>

\* Lines 280-290: the initial check.
DfsInitialCheck ==
    /\ pc = "dfs_initial"
    /\ font_size \in Sizes
    /\ LET call == LineFitsCall(text, font_size, max_width, max_height)
       IN  /\ measured' = Append(measured, Measurement(text, font_size, "_line_fits"))
           /\ last_fit' = call
           /\ IF call.exc # NoExc
              THEN pc' = "raised" /\ exc' = call.exc
              ELSE IF AfterInitialCheck(call.fits) = "dfs_nofit"
              THEN pc' = "raised" /\ exc' = FitExhaustionError
              ELSE pc' = AfterInitialCheck(call.fits) /\ exc' = exc
    /\ UNCHANGED validation_vars
    /\ UNCHANGED system_vars
    /\ UNCHANGED <<inputs, ret, text, font_size, max_width, max_height, fonts_made,
                   dfs_result, font_size_candidates, font, drawn, entry, meme, events>>

\* Lines 292-300: one test of the while condition, then either the loop
\* body or the return.
DfsLoopTest ==
    /\ pc = "dfs_loop"
    /\ font_size \in Sizes
    /\ LET call == LineFitsCall(text, font_size, max_width, max_height)
       IN  /\ call.fits => NextFontSize(font_size) \in Sizes
           /\ measured' = Append(measured, Measurement(text, font_size, "_line_fits"))
           /\ last_fit' = call
           /\ IF call.exc # NoExc
              THEN /\ pc' = "raised"
                   /\ exc' = call.exc
                   /\ UNCHANGED <<font_size, fonts_made, dfs_result>>
              ELSE IF call.fits
              THEN /\ font_size' = NextFontSize(font_size)
                   /\ fonts_made' = Append(fonts_made, NextFontSize(font_size))
                   /\ UNCHANGED <<pc, exc, dfs_result>>
              ELSE /\ dfs_result' = ReturnedSize(font_size)
                   /\ pc' = ret
                   /\ UNCHANGED <<font_size, fonts_made, exc>>
    /\ UNCHANGED validation_vars
    /\ UNCHANGED system_vars
    /\ UNCHANGED <<inputs, ret, text, max_width, max_height,
                   font_size_candidates, font, drawn, entry, meme, events>>

\* -------------------------------------------------------------- MemeText

\* Python truthiness of a str | None.
Truthy(s) == s # None /\ s # ""

\* Python's `a or b`.
PyOr(a, b) == IF Truthy(a) THEN a ELSE b

\* A validation that tests only for None.
ValidateTextRaisesNoneOnly(top, bottom) == top = None /\ bottom = None

\* _validate_text raises iff `not (self.top_text or self.bottom_text)`.
ValidateTextRaises(top, bottom) == ~Truthy(PyOr(top, bottom))

\* MemeText(top_text, bottom_text, font): __post_init__ validates.
MakeMemeText ==
    /\ pc = "meme_text"
    /\ IF ValidateTextRaises(top_text, bottom_text)
       THEN pc' = "raised" /\ exc' = ValidationError /\ events' = events
       ELSE /\ pc' = "cm_enter"
            /\ exc' = exc
            /\ events' = Append(events, "meme_text_constructed")
    /\ UNCHANGED validation_vars
    /\ UNCHANGED system_vars
    /\ UNCHANGED <<inputs, ret, text, font_size, max_width, max_height, fonts_made,
                   measured, last_fit, dfs_result, font_size_candidates, font, drawn,
                   entry, meme>>

\* ----------------------------------------------------------- create_meme

\* The largest candidate instead of the smallest.
MaxOf(cands) ==
    CHOOSE m \in {cands[i] : i \in 1..Len(cands)} :
        \A i \in 1..Len(cands) : m >= cands[i]

\* min(font_size_candidates) of a non-empty list.
MinOf(cands) ==
    CHOOSE m \in {cands[i] : i \in 1..Len(cands)} :
        \A i \in 1..Len(cands) : m <= cands[i]

\* Lines 107-109.
CmEnter ==
    /\ pc = "cm_enter"
    /\ font' = meme_font
    /\ font_size_candidates' = << >>
    /\ pc' = IF meme_font = NoFont THEN "cm_top" ELSE "att_top"
    /\ UNCHANGED validation_vars
    /\ UNCHANGED system_vars
    /\ UNCHANGED <<inputs, ret, text, font_size, max_width, max_height, fonts_made,
                   measured, last_fit, dfs_result, drawn, exc, entry, meme, events>>

\* A test that also skips the empty caption.
SearchWantedTruthy(caption) == caption # None /\ caption # ""

\* Lines 110 and 119: `if meme_text.<caption> is not None`.
SearchWanted(caption) == caption # None

\* Lines 110-118: the call of _determine_font_size for the top caption.
CmTopSearch ==
    /\ pc = "cm_top"
    /\ IF SearchWanted(top_text)
       THEN /\ text' = top_text
            /\ ret' = "cm_top_done"
            /\ pc' = "dfs_call"
            /\ events' = Append(events, "search_top")
       ELSE text' = text /\ ret' = ret /\ pc' = "cm_bottom" /\ events' = events
    /\ UNCHANGED validation_vars
    /\ UNCHANGED system_vars
    /\ UNCHANGED <<inputs, font_size, max_width, max_height, fonts_made, measured,
                   last_fit, dfs_result, font_size_candidates, font, drawn, exc,
                   entry, meme>>

\* Line 111: append the top candidate.
CmTopDone ==
    /\ pc = "cm_top_done"
    /\ font_size_candidates' = Append(font_size_candidates, dfs_result)
    /\ pc' = "cm_bottom"
    /\ UNCHANGED validation_vars
    /\ UNCHANGED system_vars
    /\ UNCHANGED <<inputs, ret, text, font_size, max_width, max_height, fonts_made,
                   measured, last_fit, dfs_result, font, drawn, exc, entry, meme, events>>

\* Lines 119-127: the call of _determine_font_size for the bottom caption.
CmBottomSearch ==
    /\ pc = "cm_bottom"
    /\ IF SearchWanted(bottom_text)
       THEN /\ text' = bottom_text
            /\ ret' = "cm_bottom_done"
            /\ pc' = "dfs_call"
            /\ events' = Append(events, "search_bottom")
       ELSE text' = text /\ ret' = ret /\ pc' = "cm_select" /\ events' = events
    /\ UNCHANGED validation_vars
    /\ UNCHANGED system_vars
    /\ UNCHANGED <<inputs, font_size, max_width, max_height, fonts_made, measured,
                   last_fit, dfs_result, font_size_candidates, font, drawn, exc,
                   entry, meme>>

\* Line 120: append the bottom candidate.
CmBottomDone ==
    /\ pc = "cm_bottom_done"
    /\ font_size_candidates' = Append(font_size_candidates, dfs_result)
    /\ pc' = "cm_select"
    /\ UNCHANGED validation_vars
    /\ UNCHANGED system_vars
    /\ UNCHANGED <<inputs, ret, text, font_size, max_width, max_height, fonts_made,
                   measured, last_fit, dfs_result, font, drawn, exc, entry, meme, events>>

\* Lines 130-134: the shared font.  min() of an empty list raises ValueError.
CmSelect ==
    /\ pc = "cm_select"
    /\ IF font_size_candidates = << >>
       THEN /\ pc' = "raised"
            /\ exc' = [type |-> "ValueError", msg |-> "min() arg is an empty sequence"]
            /\ UNCHANGED <<font, fonts_made>>
       ELSE /\ font' = FontAt(MinOf(font_size_candidates))
            /\ fonts_made' = Append(fonts_made, MinOf(font_size_candidates))
            /\ pc' = "att_top"
            /\ exc' = exc
    /\ UNCHANGED validation_vars
    /\ UNCHANGED system_vars
    /\ UNCHANGED <<inputs, ret, text, font_size, max_width, max_height, measured,
                   last_fit, dfs_result, font_size_candidates, drawn, entry,
                   meme, events>>

\* ---------------------------------------------------- _add_text_to_image

\* The handle of the image the caller passes in, and no handle.
CallerImage == "image"

NoImage == "none"

\* A compositor that draws onto a copy of the image.
DrawTargetCopy(handle) == "copy"

\* Line 171: ImageDraw.Draw(image) draws onto the image it is given.
DrawTarget(handle) == handle

\* Line 203: `return image`.
ReturnedImage(handle) == handle

\* A bottom position that leaves the text height out.
DrawOfNoHeight(which, t, size, img, m, tw, th) ==
    [on |-> DrawTarget(CallerImage), which |-> which, text |-> t, size |-> size,
     x_twice |-> img.width - tw,
     y |-> IF which = "top" THEN m.vertical ELSE img.height - m.vertical]

\* One draw.text call: the image drawn onto, the caption, its font size and its position; the
\* horizontal position (image.width - text_width) / 2 is kept as its
\* numerator x_twice.
DrawOf(which, t, size, img, m, tw, th) ==
    [on |-> DrawTarget(CallerImage), which |-> which, text |-> t, size |-> size,
     x_twice |-> img.width - tw,
     y |-> IF which = "top" THEN m.vertical ELSE img.height - th - m.vertical]

\* Lines 174-186: the top caption.
AttTop ==
    /\ pc = "att_top"
    /\ IF top_text = None
       THEN pc' = "att_bottom" /\ UNCHANGED <<measured, drawn, exc>>
       ELSE LET m == GetTextSize(backend[top_text][SizeOf(font)], descent)
            IN  /\ measured' = Append(measured, Measurement(top_text, SizeOf(font),
                                                          "_add_text_to_image"))
                /\ IF m.exc # NoExc
                   THEN pc' = "raised" /\ exc' = m.exc /\ drawn' = drawn
                   ELSE /\ drawn' = Append(drawn, DrawOf("top", top_text, SizeOf(font),
                                                         image, margins, m.width, m.height))
                        /\ pc' = "att_bottom"
                        /\ exc' = exc
    /\ UNCHANGED validation_vars
    /\ UNCHANGED system_vars
    /\ UNCHANGED <<inputs, ret, text, font_size, max_width, max_height, fonts_made,
                   last_fit, dfs_result, font_size_candidates, font, entry, meme, events>>

\* Lines 187-203: the bottom caption, then the return of the image.
AttBottom ==
    /\ pc = "att_bottom"
    /\ IF bottom_text = None
       THEN /\ pc' = "cm_returned"
            /\ meme' = ReturnedImage(CallerImage)
            /\ UNCHANGED <<measured, drawn, exc>>
       ELSE LET m == GetTextSize(backend[bottom_text][SizeOf(font)], descent)
            IN  /\ measured' = Append(measured, Measurement(bottom_text, SizeOf(font),
                                                          "_add_text_to_image"))
                /\ IF m.exc # NoExc
                   THEN pc' = "raised" /\ exc' = m.exc /\ drawn' = drawn /\ meme' = meme
                   ELSE /\ drawn' = Append(drawn, DrawOf("bottom", bottom_text, SizeOf(font),
                                                         image, margins, m.width, m.height))
                        /\ pc' = "cm_returned"
                        /\ meme' = ReturnedImage(CallerImage)
                        /\ exc' = exc
    /\ UNCHANGED validation_vars
    /\ UNCHANGED system_vars
    /\ UNCHANGED <<inputs, ret, text, font_size, max_width, max_height, fonts_made,
                   last_fit, dfs_result, font_size_candidates, font, entry, events>>

\* ------------------------------------------------------ the create command

\* create.py lines 62-69, first half: Path(template_name).is_file(), or the
\* lookup in discovered_templates, which raises KeyError for an unknown name.
CmdResolveTemplate ==
    /\ pc = "cmd_start"
    /\ \E found \in BOOLEAN :
        IF found
        THEN pc' = "cmd_load" /\ exc' = exc /\ events' = Append(events, "template_resolved")
        ELSE pc' = "raised" /\ exc' = KeyErrorTemplate /\ events' = events
    /\ UNCHANGED validation_vars
    /\ UNCHANGED system_vars
    /\ UNCHANGED <<inputs, ret, text, font_size, max_width, max_height, fonts_made,
                   measured, last_fit, dfs_result, font_size_candidates, font, drawn,
                   entry, meme>>

\* create.py lines 64 and 69: load_image.
CmdLoadImage ==
    /\ pc = "cmd_load"
    /\ events' = Append(events, "image_loaded")
    /\ pc' = "meme_text"
    /\ UNCHANGED validation_vars
    /\ UNCHANGED system_vars
    /\ UNCHANGED <<inputs, ret, text, font_size, max_width, max_height, fonts_made,
                   measured, last_fit, dfs_result, font_size_candidates, font, drawn,
                   exc, entry, meme>>

\* create.py lines 77-80: the meme create_meme returned is saved.
CmdSave ==
    /\ pc = "cm_returned"
    /\ entry = "create"
    /\ events' = Append(events, "saved")
    /\ pc' = "done"
    /\ UNCHANGED validation_vars
    /\ UNCHANGED system_vars
    /\ UNCHANGED <<inputs, ret, text, font_size, max_width, max_height, fonts_made,
                   measured, last_fit, dfs_result, font_size_candidates, font, drawn,
                   exc, entry, meme>>

\* ------------------------------------------------ the search on its own

Images == {[width |-> 4, height |-> 10], [width |-> 10, height |-> 25]}

Margins == {[vertical |-> 1, horizontal |-> 1], [vertical |-> 5, horizontal |-> 5]}

Ratios == {10, 20}

\* The images, and the height ratios, the search on its own is run with:
\* the 10x10 image, and the ratio 0.15 whose products round up.
ImagesFit == Images \cup {[width |-> 10, height |-> 10]}

RatiosFit == {10, 15}

Profiles == [Sizes -> BBoxResults]

\* The backend answers None for the empty string at every size.
EmptyProfile == [s \in Sizes |-> [kind |-> "none", x2 |-> 0, y2 |-> 0]]

\* The configuration files: the user's one, at get_config_path(), and one
\* at a path of the caller's choice.
ConfigPaths == {"user_config", "custom"}

\* What a configuration file holds: nothing (no file), the user's settings,
\* the packaged defaults, or text that is not a configuration.
Contents == {"absent", "user", "defaults", "invalid"}

\* No Configuration object: None.
NoConfiguration == [id |-> 0, content |-> "none"]

\* No configuration is being loaded.
ConfigIdle ==
    /\ files = << >>
    /\ writable = FALSE
    /\ provider = << >>
    /\ objects = 0
    /\ history = << >>

\* No TemplatesConfiguration is in use.
DiscoveryIdle ==
    /\ disk = {}
    /\ tconfig = << >>
    /\ cached = << >>
    /\ scans = << >>
    /\ results = << >>

\* No pull command is running.
PullIdle ==
    /\ options = << >>
    /\ remote = << >>
    /\ target_dir = << >>
    /\ pull_pc = "idle"
    /\ to_pull_list = << >>
    /\ remaining = {}
    /\ attempts = << >>
    /\ failed_downloads = << >>
    /\ reported = 0

\* Nothing outside the rendering and the validation has happened.
SystemIdle == ConfigIdle /\ DiscoveryIdle /\ PullIdle

InitFit ==
    /\ top_text = "A"
    /\ bottom_text = None
    /\ meme_font = NoFont
    /\ image \in ImagesFit
    /\ margins \in Margins
    /\ ratio_pct \in RatiosFit
    /\ \E p \in Profiles : backend = [t \in Texts |-> IF t = "A" THEN p ELSE EmptyProfile]
    /\ descent \in 0..MaxDescent
    /\ pc = "dfs_call"
    /\ ret = "done"
    /\ text = "A"
    /\ font_size = 0
    /\ max_width = 0
    /\ max_height = 0
    /\ fonts_made = << >>
    /\ measured = << >>
    /\ last_fit = NoCall
    /\ dfs_result = 0
    /\ font_size_candidates = << >>
    /\ font = NoFont
    /\ drawn = << >>
    /\ exc = NoExc
    /\ entry = "_determine_font_size"
    /\ events = << >>
    /\ meme = NoImage
    /\ request = NoValidation
    /\ outcome = NoOutcome
    /\ SystemIdle

NextFit == DfsStart \/ DfsInitialCheck \/ DfsLoopTest

SpecFit == InitFit /\ [][NextFit]_vars

\* ------------------------------------------- the whole of a meme's making

\* The bounding boxes of the two caption texts here: None, a small box or
\* a large one.
BBoxCreate ==
    {[kind |-> "none", x2 |-> 0, y2 |-> 0],
     [kind |-> "num", x2 |-> 1, y2 |-> 1],
     [kind |-> "num", x2 |-> MaxDim, y2 |-> MaxDim]}

ProfilesCreate == [Sizes -> BBoxCreate]

\* Either the create command runs (it passes no font), or a caller builds a
\* MemeText, possibly with its own font, and calls create_meme.
Init ==
    /\ top_text \in {None, "", "A"}
    /\ bottom_text \in {None, "", "B"}
    /\ entry \in {"create", "create_meme"}
    /\ meme_font \in IF entry = "create" THEN {NoFont}
                     ELSE {NoFont} \cup {FontAt(s) : s \in Sizes}
    /\ image \in Images
    /\ margins = [vertical |-> 1, horizontal |-> 1]
    /\ ratio_pct = 20
    /\ \E pa \in IF top_text = "A" THEN ProfilesCreate ELSE {EmptyProfile},
          pb \in IF bottom_text = "B" THEN ProfilesCreate ELSE {EmptyProfile} :
          backend = [t \in Texts |-> IF t = "A" THEN pa ELSE IF t = "B" THEN pb
                                     ELSE EmptyProfile]
    /\ descent \in 0..MaxDescent
    /\ pc = IF entry = "create" THEN "cmd_start" ELSE "meme_text"
    /\ ret = "done"
    /\ text = ""
    /\ font_size = 0
    /\ max_width = 0
    /\ max_height = 0
    /\ fonts_made = << >>
    /\ measured = << >>
    /\ last_fit = NoCall
    /\ dfs_result = 0
    /\ font_size_candidates = << >>
    /\ font = NoFont
    /\ drawn = << >>
    /\ exc = NoExc
    /\ events = << >>
    /\ meme = NoImage
    /\ request = NoValidation
    /\ outcome = NoOutcome
    /\ SystemIdle

Next ==
    \/ CmdResolveTemplate
    \/ CmdLoadImage
    \/ MakeMemeText
    \/ CmEnter
    \/ CmTopSearch
    \/ CmTopDone
    \/ CmBottomSearch
    \/ CmBottomDone
    \/ CmSelect
    \/ AttTop
    \/ AttBottom
    \/ CmdSave
    \/ DfsStart
    \/ DfsInitialCheck
    \/ DfsLoopTest

Spec == Init /\ [][Next]_vars

\* ------------------------------------------------------------------ claims

\* Whether text t fits at size s, by _line_fits against the budget computed
\* from the image and the layout.
FitsAt(t, s) ==
    LineFitsCall(t, s, MaxWidthOf(image, margins), MaxHeightOf(image, ratio_pct)).fits

\* The measurement of text t at size s.
MeasuredAt(t, s) == GetTextSize(backend[t][s], descent)

\* Measurement succeeds at every size and width and height never shrink as
\* the size grows.
Monotone(t) ==
    /\ \A s \in Sizes : MeasuredAt(t, s).exc = NoExc
    /\ \A s1, s2 \in Sizes :
        s1 <= s2 => /\ MeasuredAt(t, s1).width <= MeasuredAt(t, s2).width
                    /\ MeasuredAt(t, s1).height <= MeasuredAt(t, s2).height

\* C1: when size 1 fits, the search does not report fit exhaustion, and the
\* size s it returns is at least 1, every size in 1..s fits and s+1 does not.
C1_ReturnsFitBoundary ==
    /\ (pc = "raised" /\ FitsAt(text, 1)) => exc # FitExhaustionError
    /\ pc = "done" =>
        /\ FitsAt(text, 1)
        /\ dfs_result >= 1
        /\ \A k \in 1..dfs_result : FitsAt(text, k)
        /\ ~FitsAt(text, dfs_result + 1)

C1_Witness ==
    /\ pc = "done"
    /\ dfs_result = MaxSize
    /\ Len(measured) = MaxSize + 2

\* C2: with measurements that never shrink as the size grows, the returned
\* size is the largest that fits: no greater size fits, and it fits itself.
C2_LargestFittingSize ==
    (pc = "done" /\ Monotone(text)) =>
        /\ \A k \in Sizes : k > dfs_result => ~FitsAt(text, k)
        /\ FitsAt(text, dfs_result)

C2_Witness ==
    /\ pc = "done"
    /\ Monotone(text)
    /\ dfs_result = 1
    /\ MeasuredAt(text, 1).width < MeasuredAt(text, MaxSize + 1).width

\* Size 1 is measured and does not fit the budget.
SizeOneDoesNotFit ==
    /\ MeasuredAt(text, 1).exc = NoExc
    /\ ~FitsAt(text, 1)

\* C3: when the text does not fit at size 1 the search raises the
\* fit-exhaustion error at once: only the size-1 font was made, only one
\* measurement was taken, and nothing is returned.
C3_FailsFastAtSizeOne ==
    (SizeOneDoesNotFit /\ pc \notin {"dfs_call", "dfs_initial"}) =>
        /\ pc = "raised"
        /\ exc = FitExhaustionError
        /\ fonts_made = <<1>>
        /\ measured = <<Measurement(text, 1, "_line_fits")>>
        /\ dfs_result = 0

C3_Witness ==
    /\ pc = "raised"
    /\ exc = FitExhaustionError
    /\ SizeOneDoesNotFit
    /\ \E s \in Sizes : s > 1 /\ FitsAt(text, s)

\* C4: _line_fits returns true exactly when width <= max_width and
\* height < max_height: a width equal to max_width is accepted when the
\* height is below max_height, a height equal to max_height is rejected.
C4_LineFitsBoundary ==
    (last_fit.size >= 1 /\ last_fit.exc = NoExc) =>
        /\ last_fit.fits <=> (/\ last_fit.width <= last_fit.max_width
                              /\ last_fit.height < last_fit.max_height)
        /\ (last_fit.width = last_fit.max_width /\ last_fit.height < last_fit.max_height)
              => last_fit.fits
        /\ last_fit.height = last_fit.max_height => ~last_fit.fits

\* A search that accepted size 1 with the width equal to max_width and then
\* rejected size 2 whose height equals max_height and whose width fits.
C4_Witness ==
    /\ last_fit.size = 2
    /\ last_fit.exc = NoExc
    /\ last_fit.height = last_fit.max_height
    /\ last_fit.width <= last_fit.max_width
    /\ ~last_fit.fits
    /\ MeasuredAt(text, 1).width = max_width
    /\ pc = "done"

\* C9: whenever the backend's bounding box is not numeric, None included,
\* _get_text_size raises MemeGenerationError, and no exception of another
\* type escapes from a measurement.
C9_MeasurementErrorOnly ==
    last_fit.size >= 1 =>
        /\ backend[text][last_fit.size].kind # "num"
              => last_fit.exc.type = "MemeGenerationError"
        /\ last_fit.exc # NoExc => last_fit.exc.type = "MemeGenerationError"

\* Whether an element occurs in a sequence.
Occurs(x, seq) == \E i \in 1..Len(seq) : seq[i] = x

\* The captions create_meme treats as present.
PresentTexts == {t \in {top_text, bottom_text} : t # None}

\* The size the fit search yields for text t, told from the backend alone:
\* the s with every size in 1..s fitting and s+1 not.
SearchValue(t) ==
    CHOOSE s \in 1..MaxSize : (\A k \in 1..s : FitsAt(t, k)) /\ ~FitsAt(t, s + 1)

\* The smallest of the present captions' search values.
SharedSize ==
    CHOOSE m \in {SearchValue(t) : t \in PresentTexts} :
        \A t \in PresentTexts : m <= SearchValue(t)

\* create_meme has chosen its font.
FontChosen == pc \in {"att_top", "att_bottom", "cm_returned", "done"}

\* C5: with no font supplied, there is one candidate per present caption,
\* each the fit search's value for that caption under the one image and
\* layout, and every caption is drawn with the one font whose size is the
\* smallest candidate; the captions are never drawn at different sizes.
C5_SharedMinimumFont ==
    /\ (meme_font = NoFont /\ FontChosen) =>
        /\ Len(font_size_candidates) = Cardinality({w \in {"top", "bottom"} :
              (IF w = "top" THEN top_text ELSE bottom_text) # None})
        /\ top_text # None => font_size_candidates[1] = SearchValue(top_text)
        /\ bottom_text # None =>
              font_size_candidates[Len(font_size_candidates)] = SearchValue(bottom_text)
        /\ font = FontAt(SharedSize)
        /\ \A i \in 1..Len(drawn) : drawn[i].size = SharedSize
    /\ \A i, j \in 1..Len(drawn) : drawn[i].size = drawn[j].size

\* Both captions drawn with the bottom caption's smaller candidate.
C5_Witness ==
    /\ meme_font = NoFont
    /\ pc = "cm_returned"
    /\ Len(drawn) = 2
    /\ font_size_candidates = <<2, 1>>
    /\ drawn[1].size = 1
    /\ drawn[2].size = 1

\* C6: neither caption overflows: every caption drawn fits the width and
\* height budget at the font size it is drawn with, with or without a font
\* carried by the MemeText.
C6_DrawnCaptionsFit ==
    \A i \in 1..Len(drawn) : FitsAt(drawn[i].text, drawn[i].size)

\* Both captions are None or empty.
BothEmpty == top_text \in {None, ""} /\ bottom_text \in {None, ""}

\* The MemeText constructor has run.
MemeTextAttempted ==
    /\ pc \notin {"cmd_start", "cmd_load", "meme_text"}
    /\ exc # KeyErrorTemplate

\* C7: constructing a MemeText fails with the validation error iff both
\* captions are None or empty; with one non-empty caption it succeeds.
C7_ValidationIffBothEmpty ==
    MemeTextAttempted =>
        /\ (pc = "raised" /\ exc = ValidationError) <=> BothEmpty
        /\ Occurs("meme_text_constructed", events) <=> ~BothEmpty

C7_Witness ==
    /\ Occurs("meme_text_constructed", events)
    /\ top_text = "A"
    /\ bottom_text = None

\* C8: in the create command the validation error is raised before the
\* template is resolved and before the image is loaded.
C8_ValidationBeforeImageWork ==
    (entry = "create" /\ exc = ValidationError) =>
        /\ ~Occurs("template_resolved", events)
        /\ ~Occurs("image_loaded", events)

\* C10: whenever create_meme raises, no caption has been drawn onto the
\* caller's image.
C10_NoDrawOnFailure ==
    (pc = "raised" /\ Occurs("meme_text_constructed", events)) => drawn = << >>

\* The search has computed its budget.
BudgetComputed == pc \notin {"dfs_call"} /\ font_size >= 1

\* Whether the integer r is n / d rounded to the nearest integer, a tie
\* going to the even one.
IsRoundedHalfEven(r, n, d) ==
    LET twice_off == IF 2 * (d * r - n) >= 0 THEN 2 * (d * r - n) ELSE 2 * (n - d * r)
    IN  /\ twice_off <= d
        /\ twice_off = d => r % 2 = 0

\* The 10x10 image with horizontal margin 5 and ratio 0.1.
TenByTen ==
    /\ image = [width |-> 10, height |-> 10]
    /\ margins.horizontal = 5
    /\ ratio_pct = 10

\* C11: the budget is max_width = image.width - 2 * horizontal margin and
\* max_height = round(image.height * ratio); for the 10x10 image with margin
\* 5 and ratio 0.1 it is width 0 and height 1, and a text of positive width
\* or of height >= 1 at size 1 raises the fit-exhaustion error.
C11_BudgetFormula ==
    BudgetComputed =>
        /\ max_width = image.width - margins.horizontal - margins.horizontal
        /\ IsRoundedHalfEven(max_height, image.height * ratio_pct, 100)
        /\ TenByTen => max_width = 0 /\ max_height = 1
        /\ (/\ TenByTen
            /\ pc # "dfs_initial"
            /\ MeasuredAt(text, 1).exc = NoExc
            /\ (MeasuredAt(text, 1).width > 0 \/ MeasuredAt(text, 1).height >= 1))
              => pc = "raised" /\ exc = FitExhaustionError

C11_Witness ==
    /\ TenByTen
    /\ max_width = 0
    /\ max_height = 1
    /\ pc = "raised"
    /\ exc = FitExhaustionError
    /\ measured = <<Measurement(text, 1, "_line_fits")>>

\* How often an element occurs in a sequence.
CountOf(x, seq) == Cardinality({i \in 1..Len(seq) : seq[i] = x})

\* The calls of _determine_font_size that create_meme has made, in order.
Searches ==
    SelectSeq(events, LAMBDA e : e \in {"search_top", "search_bottom"})

\* The searches a MemeText with no font asks for: top first, then bottom,
\* none for a caption that is None.
SearchesDue ==
    (IF top_text # None THEN <<"search_top">> ELSE << >>)
    \o (IF bottom_text # None THEN <<"search_bottom">> ELSE << >>)

\* C12: with no font supplied create_meme runs the fit search once for each
\* caption that is not None, top first, and never for a None caption: one
\* or two searches for a validated MemeText; if the top search raises, the
\* bottom search is not run.
C12_OneSearchPerCaption ==
    meme_font = NoFont =>
        /\ \E n \in 0..Len(SearchesDue) : Searches = SubSeq(SearchesDue, 1, n)
        /\ FontChosen => (Searches = SearchesDue /\ Len(Searches) \in 1..2)
        /\ (Occurs("search_bottom", events) /\ top_text # None)
              => Len(font_size_candidates) >= 1
        /\ (pc = "raised" /\ Occurs("search_top", events) /\ font_size_candidates = << >>)
              => ~Occurs("search_bottom", events)

\* The top search raised with a bottom caption waiting.
C12_Witness ==
    /\ meme_font = NoFont
    /\ pc = "raised"
    /\ Searches = <<"search_top">>
    /\ bottom_text = "B"

\* The caption of a draw, by the place it is drawn at.
CaptionOf(which) == IF which = "top" THEN top_text ELSE bottom_text

\* C13: the top caption is placed at x = (image.width - text_width) / 2,
\* y = margins.vertical, the bottom caption at the same x formula and
\* y = image.height - text_height - margins.vertical, with the caption's
\* measurements at the shared font (x is compared doubled).
C13_CaptionPositions ==
    \A i \in 1..Len(drawn) :
        LET d == drawn[i]
            m == MeasuredAt(CaptionOf(d.which), SizeOf(font))
        IN  /\ d.text = CaptionOf(d.which)
            /\ d.size = SizeOf(font)
            /\ m.exc = NoExc
            /\ d.x_twice + m.width = image.width
            /\ d.which = "top" => d.y = margins.vertical
            /\ d.which = "bottom" => d.y + m.height + margins.vertical = image.height

\* Both captions placed, the bottom one with a descent in its height.
C13_Witness ==
    /\ Len(drawn) = 2
    /\ drawn[1].which = "top"
    /\ drawn[2].which = "bottom"
    /\ descent = 1
    /\ drawn[1].x_twice # drawn[2].x_twice
    /\ drawn[2].y = image.height - (MeasuredAt(bottom_text, SizeOf(font)).height) - 1

\* The draws a call makes: the top caption if it is not None, then the
\* bottom caption if it is not None.
DrawsDue ==
    (IF top_text # None THEN <<"top">> ELSE << >>)
    \o (IF bottom_text # None THEN <<"bottom">> ELSE << >>)

\* C14: _add_text_to_image draws onto the image it was given and returns
\* that same handle; a None caption is never drawn, and on return the draws
\* are exactly one per caption that is not None, top before bottom.
C14_InPlaceSameHandle ==
    /\ \A i \in 1..Len(drawn) :
          /\ drawn[i].on = CallerImage
          /\ CaptionOf(drawn[i].which) # None
    /\ meme # NoImage <=> pc \in {"cm_returned", "done"}
    /\ pc \in {"cm_returned", "done"} =>
          /\ meme = CallerImage
          /\ [i \in 1..Len(drawn) |-> drawn[i].which] = DrawsDue

C14_Witness ==
    /\ pc = "cm_returned"
    /\ meme = CallerImage
    /\ Len(drawn) = 2
    /\ drawn[1].which = "top"
    /\ drawn[2].which = "bottom"
    /\ drawn[1].on = CallerImage
    /\ drawn[2].on = CallerImage

\* The search is running or has ended.
InSearch == pc \in {"dfs_initial", "dfs_loop", "done", "raised"}

\* The search has stopped: it returned or raised.
SearchEnded == pc \in {"done", "raised"}

\* C15: once size 1 fits the search makes a fresh font at sizes 2, 3, ...
\* in ascending order with step 1 and returns at the first size that does
\* not fit; nothing but a size that fails to fit stops it, so it ends iff
\* some size fails to fit (within the sizes of the model: a search that has
\* not ended can always step unless every size up to the bound fitted).
C15_AscendingUncappedSearch ==
    InSearch =>
        /\ fonts_made = [i \in 1..font_size |-> i]
        /\ \A i \in 1..Len(measured) : measured[i].size <= font_size
        /\ pc = "dfs_loop" => \A k \in 1..(font_size - 1) : FitsAt(text, k)
        /\ pc = "done" =>
              /\ dfs_result = font_size - 1
              /\ ~FitsAt(text, font_size)
              /\ \A k \in 1..(font_size - 1) : FitsAt(text, k)
        /\ SearchEnded => \E s \in Sizes : ~FitsAt(text, s)
        /\ (~SearchEnded /\ ~ENABLED NextFit) =>
              /\ font_size = MaxSize + 1
              /\ \A s \in Sizes : FitsAt(text, s)

\* A search that never met a size that fails: it has stepped to the last
\* size of the model, which fits too.
C15_Witness ==
    /\ pc = "dfs_loop"
    /\ font_size = MaxSize + 1
    /\ fonts_made = [i \in 1..(MaxSize + 1) |-> i]
    /\ \A s \in Sizes : FitsAt(text, s)

\* ---------------------------------------------------- core/validation.py

\* A call that raised ValidationError(msg), and one that returned a value;
\* did lists the file-system operations the call made.
Raised(msg, did) == [kind |-> "raised", msg |-> msg, did |-> did]

Returned(value, did) == [kind |-> "returned", value |-> value, did |-> did]

\* ----- validate_file_path

\* The longest path, in tokens.
MaxPathLen == 4

\* A path string is a sequence of tokens: the separator, the dot, the NUL
\* character and three names.
PathTokens == {"/", ".", "NUL", "etc", "proc", "f"}

RECURSIVE SeqsUpTo(_, _)
\* The sequences over a set, of length 0..n.
SeqsUpTo(S, n) ==
    IF n = 0 THEN {<< >>}
    ELSE LET shorter == SeqsUpTo(S, n - 1)
         IN  shorter \cup {Append(q, x) : q \in {r \in shorter : Len(r) = n - 1}, x \in S}

Paths(len) == SeqsUpTo(PathTokens, len)

\* `sub in str(path)` for a two-token sub.
ContainsPair(path, a, b) ==
    \E i \in 1..(Len(path) - 1) : path[i] = a /\ path[i + 1] = b

\* str(path).startswith of a two-token prefix.
StartsWithPair(path, a, b) ==
    Len(path) >= 2 /\ path[1] = a /\ path[2] = b

\* Line 27: the security check on the path string.
IsUnsafePath(path) ==
    \/ ContainsPair(path, ".", ".")
    \/ StartsWithPair(path, "/", "etc")
    \/ StartsWithPair(path, "/", "proc")

RECURSIVE SplitPath(_, _)
\* The names between the separators, empty names dropped.
SplitPath(path, cur) ==
    IF path = << >> THEN (IF cur = << >> THEN << >> ELSE <<cur>>)
    ELSE IF Head(path) = "/"
    THEN (IF cur = << >> THEN << >> ELSE <<cur>>) \o SplitPath(Tail(path), << >>)
    ELSE SplitPath(Tail(path), Append(cur, Head(path)))

RECURSIVE NormalizeNames(_, _)
\* os.path.normpath on names: "." is dropped, ".." drops the name before it.
NormalizeNames(names, acc) ==
    IF names = << >> THEN acc
    ELSE IF Head(names) = <<".">> THEN NormalizeNames(Tail(names), acc)
    ELSE IF Head(names) = <<".", ".">>
    THEN NormalizeNames(Tail(names),
                        IF acc = << >> THEN acc ELSE SubSeq(acc, 1, Len(acc) - 1))
    ELSE NormalizeNames(Tail(names), Append(acc, Head(names)))

\* Line 31: Path(path).resolve() raises ValueError for an embedded NUL.
ResolveRaises(path) == \E i \in 1..Len(path) : path[i] = "NUL"

\* Line 31: Path(path).resolve(): the names from the root, a relative path
\* taken from the working directory, and the symbolic link /f -> /etc
\* followed when the file system has it.
Resolve(path, cwd, link) ==
    LET start == IF path # << >> /\ Head(path) = "/" THEN << >> ELSE cwd
        names == NormalizeNames(SplitPath(path, << >>), start)
    IN  IF link /\ names # << >> /\ Head(names) = <<"f">>
        THEN <<<<"etc">>>> \o Tail(names)
        ELSE names

\* The files and directories that exist: /, /etc, /etc/f, /proc and /f.
Existing ==
    {<< >>, <<<<"etc">>>>, <<<<"etc">>, <<"f">>>>, <<<<"proc">>>>, <<<<"f">>>>}

\* A validation that looks at the file system before the security check.
ValidateFilePathExistsFirst(path, must_exist, cwd, link) ==
    IF ResolveRaises(path) THEN Raised("Invalid file path", <<"resolve">>)
    ELSE IF must_exist /\ Resolve(path, cwd, link) \notin Existing
    THEN Raised("File does not exist", <<"resolve", "exists">>)
    ELSE IF IsUnsafePath(path) THEN Raised("Unsafe file path", <<"resolve">>)
    ELSE Returned(Resolve(path, cwd, link), <<"resolve">>)

\* Lines 26-38.
ValidateFilePath(path, must_exist, cwd, link) ==
    IF IsUnsafePath(path) THEN Raised("Unsafe file path", << >>)
    ELSE IF ResolveRaises(path) THEN Raised("Invalid file path", <<"resolve">>)
    ELSE IF must_exist
    THEN IF Resolve(path, cwd, link) \notin Existing
         THEN Raised("File does not exist", <<"resolve", "exists">>)
         ELSE Returned(Resolve(path, cwd, link), <<"resolve", "exists">>)
    ELSE Returned(Resolve(path, cwd, link), <<"resolve">>)

FilePathRequests(len) ==
    [fn : {"validate_file_path"}, path : Paths(len), must_exist : BOOLEAN,
     cwd : {<< >>, <<<<"etc">>>>}, link : BOOLEAN]

CallValidateFilePath ==
    /\ request.fn = "validate_file_path"
    /\ outcome = NoOutcome
    /\ outcome' = ValidateFilePath(request.path, request.must_exist, request.cwd,
                                   request.link)
    /\ UNCHANGED request
    /\ UNCHANGED meme_vars
    /\ UNCHANGED system_vars

\* ----- validate_template_name

\* The most runs of one character in a template name.
MaxRuns == 2

\* Line 59: the longest template name.
MaxTemplateNameLength == 255

\* Characters are code points: unit separator, space, "a", "<" and SOH.
NameChars == {31, 32, 97, 60, 1}

\* A name is given as runs of one character; the lengths reach the limit.
NameRuns(most) == SeqsUpTo([ch : NameChars, n : {1, 254, 255}], most)

RECURSIVE Expand(_)
\* The string of a sequence of runs.
Expand(runs) ==
    IF runs = << >> THEN << >>
    ELSE [i \in 1..Head(runs).n |-> Head(runs).ch] \o Expand(Tail(runs))

\* The characters str.strip() removes, among the code points below 256.
IsSpace(c) == (c >= 9 /\ c <= 13) \/ (c >= 28 /\ c <= 32) \/ c = 133 \/ c = 160

RECURSIVE LeadingSpaces(_, _, _)
\* How many characters of s[lo..hi] come before its first non-space one.
LeadingSpaces(s, lo, hi) ==
    IF lo > hi THEN 0
    ELSE IF lo = hi THEN (IF IsSpace(s[lo]) THEN 1 ELSE 0)
    ELSE LET mid  == (lo + hi) \div 2
             left == LeadingSpaces(s, lo, mid)
         IN  IF left = mid - lo + 1 THEN left + LeadingSpaces(s, mid + 1, hi) ELSE left

RECURSIVE TrailingSpaces(_, _, _)
\* How many characters of s[lo..hi] come after its last non-space one.
TrailingSpaces(s, lo, hi) ==
    IF lo > hi THEN 0
    ELSE IF lo = hi THEN (IF IsSpace(s[lo]) THEN 1 ELSE 0)
    ELSE LET mid   == (lo + hi) \div 2
             right == TrailingSpaces(s, mid + 1, hi)
         IN  IF right = hi - mid THEN right + TrailingSpaces(s, lo, mid) ELSE right

\* str.strip().
Strip(s) ==
    SubSeq(s, 1 + LeadingSpaces(s, 1, Len(s)), Len(s) - TrailingSpaces(s, 1, Len(s)))

\* Line 63: the class [<>:"/\\|?*\x00-\x1f].
IsInvalidNameChar(c) == c \in {60, 62, 58, 34, 47, 92, 124, 63, 42} \/ (c >= 0 /\ c <= 31)

\* A validation that looks for invalid characters before the length.
ValidateTemplateNameCharsFirst(name) ==
    IF name = << >> \/ Strip(name) = << >>
    THEN Raised("Template name cannot be empty", << >>)
    ELSE LET stripped == Strip(name)
         IN  IF \E i \in 1..Len(stripped) : IsInvalidNameChar(stripped[i])
             THEN Raised("Template name contains invalid characters", << >>)
             ELSE IF Len(stripped) > MaxTemplateNameLength
             THEN Raised("Template name too long (max 255 characters)", << >>)
             ELSE Returned(stripped, << >>)

\* Lines 53-66.
ValidateTemplateName(name) ==
    IF name = << >> \/ Strip(name) = << >>
    THEN Raised("Template name cannot be empty", << >>)
    ELSE LET stripped == Strip(name)
         IN  IF Len(stripped) > MaxTemplateNameLength
             THEN Raised("Template name too long (max 255 characters)", << >>)
             ELSE IF \E i \in 1..Len(stripped) : IsInvalidNameChar(stripped[i])
             THEN Raised("Template name contains invalid characters", << >>)
             ELSE Returned(stripped, << >>)

TemplateNameRequests(most) == [fn : {"validate_template_name"}, runs : NameRuns(most)]

CallValidateTemplateName ==
    /\ request.fn = "validate_template_name"
    /\ outcome = NoOutcome
    /\ outcome' = ValidateTemplateName(Expand(request.runs))
    /\ UNCHANGED request
    /\ UNCHANGED meme_vars
    /\ UNCHANGED system_vars

\* ----- validate_text_input

\* The longest text, and the largest max_length.
MaxTextLen == 3

\* Backspace, tab, line feed, form feed, carriage return, shift out, "A", DEL.
TextChars == {8, 9, 10, 12, 13, 14, 65, 127}

TextInputs(len) == SeqsUpTo(TextChars, len)

\* A class that also takes tab, line feed and carriage return.
IsRemovedAllControl(c) == (c >= 0 /\ c <= 31) \/ c = 127

\* Line 120: the class [\x00-\x08\x0b-\x0c\x0e-\x1f\x7f].
IsRemoved(c) ==
    (c >= 0 /\ c <= 8) \/ (c >= 11 /\ c <= 12) \/ (c >= 14 /\ c <= 31) \/ c = 127

\* Line 120: re.sub of the class with "".
RemoveControl(s) == SelectSeq(s, LAMBDA c : ~IsRemoved(c))

\* Lines 113-122; is_none says that text is None.
ValidateTextInput(is_none, s, max_length) ==
    IF is_none THEN Returned(<< >>, << >>)
    ELSE IF Len(s) > max_length THEN Raised("Text too long", << >>)
    ELSE Returned(RemoveControl(s), << >>)

TextInputRequests(len) ==
    [fn : {"validate_text_input"}, is_none : {FALSE}, text : TextInputs(len),
     max_length : 0..len]
    \cup [fn : {"validate_text_input"}, is_none : {TRUE}, text : {<< >>},
          max_length : 0..len]

CallValidateTextInput ==
    /\ request.fn = "validate_text_input"
    /\ outcome = NoOutcome
    /\ outcome' = ValidateTextInput(request.is_none, request.text, request.max_length)
    /\ UNCHANGED request
    /\ UNCHANGED meme_vars
    /\ UNCHANGED system_vars

\* ----- sanitize_filename

\* The most runs of one character in a file name.
MaxFilenameRuns == 3

\* Line 147: the longest sanitized file name.
MaxFilenameLength == 255

\* Space, dot, "a" and "<".
FilenameChars == {32, 46, 97, 60}

FilenameRuns(most) == SeqsUpTo([ch : FilenameChars, n : {1, 254}], most)

\* "untitled".
Untitled == <<117, 110, 116, 105, 116, 108, 101, 100>>

RECURSIVE LeadingIn(_, _, _, _)
\* How many characters of s[lo..hi] come before its first one outside chars.
LeadingIn(s, lo, hi, chars) ==
    IF lo > hi THEN 0
    ELSE IF lo = hi THEN (IF s[lo] \in chars THEN 1 ELSE 0)
    ELSE LET mid  == (lo + hi) \div 2
             left == LeadingIn(s, lo, mid, chars)
         IN  IF left = mid - lo + 1 THEN left + LeadingIn(s, mid + 1, hi, chars)
             ELSE left

RECURSIVE TrailingIn(_, _, _, _)
\* How many characters of s[lo..hi] come after its last one outside chars.
TrailingIn(s, lo, hi, chars) ==
    IF lo > hi THEN 0
    ELSE IF lo = hi THEN (IF s[lo] \in chars THEN 1 ELSE 0)
    ELSE LET mid   == (lo + hi) \div 2
             right == TrailingIn(s, mid + 1, hi, chars)
         IN  IF right = hi - mid THEN right + TrailingIn(s, lo, mid, chars)
             ELSE right

\* str.strip(chars).
StripChars(s, chars) ==
    SubSeq(s, 1 + LeadingIn(s, 1, Len(s), chars),
           Len(s) - TrailingIn(s, 1, Len(s), chars))

\* Line 137: re.sub of the invalid class with "_".
ReplaceInvalid(s) == [i \in 1..Len(s) |-> IF IsInvalidNameChar(s[i]) THEN 95 ELSE s[i]]

\* Lines 147-148.
Truncate(s) == IF Len(s) > MaxFilenameLength THEN SubSeq(s, 1, MaxFilenameLength) ELSE s

\* A sanitizer that drops the invalid characters.
SanitizeFilenameDropping(filename) ==
    IF filename = << >> THEN Untitled
    ELSE LET sanitized == StripChars(SelectSeq(filename, LAMBDA c : ~IsInvalidNameChar(c)),
                                     {32, 46})
         IN  IF sanitized = << >> THEN Untitled ELSE Truncate(sanitized)

\* Lines 133-151.
SanitizeFilename(filename) ==
    IF filename = << >> THEN Untitled
    ELSE LET sanitized == StripChars(ReplaceInvalid(filename), {32, 46})
         IN  IF sanitized = << >> THEN Untitled ELSE Truncate(sanitized)

SanitizeFilenameRequests(most) == [fn : {"sanitize_filename"}, runs : FilenameRuns(most)]

CallSanitizeFilename ==
    /\ request.fn = "sanitize_filename"
    /\ outcome = NoOutcome
    /\ outcome' = Returned(SanitizeFilename(Expand(request.runs)), << >>)
    /\ UNCHANGED request
    /\ UNCHANGED meme_vars
    /\ UNCHANGED system_vars

\* ----- validate_url

\* The longest URL, in pieces.
MaxUrlLen == 5

\* A URL is a sequence of tokens: two scheme names, the colon, the slash,
\* the letter "a", the opening bracket and the space.
UrlTokens == {"http", "https", ":", "/", "a", "[", " "}

RECURSIVE JoinPieces(_)
\* The URL written as pieces, "//" being a piece of two slashes.
JoinPieces(pieces) ==
    IF pieces = << >> THEN << >>
    ELSE (IF Head(pieces) = "//" THEN <<"/", "/">> ELSE <<Head(pieces)>>)
         \o JoinPieces(Tail(pieces))

Urls(len) ==
    {JoinPieces(pieces) : pieces \in SeqsUpTo((UrlTokens \ {"/"}) \cup {"//"}, len)}

\* The tokens made of letters only: what a scheme may hold.
SchemeTokens == {"http", "https", "a"}

\* url.find(":") + 1, or 0.
FirstColon(u) ==
    IF \E i \in 1..Len(u) : u[i] = ":"
    THEN CHOOSE i \in 1..Len(u) : u[i] = ":" /\ \A j \in 1..(i - 1) : u[j] # ":"
    ELSE 0

\* urlsplit: the part before the first colon is the scheme when it is not
\* empty and holds scheme characters only.
HasScheme(u) ==
    FirstColon(u) > 1 /\ \A j \in 1..(FirstColon(u) - 1) : u[j] \in SchemeTokens

UrlScheme(u) == IF HasScheme(u) THEN SubSeq(u, 1, FirstColon(u) - 1) ELSE << >>

AfterScheme(u) == IF HasScheme(u) THEN SubSeq(u, FirstColon(u) + 1, Len(u)) ELSE u

\* urlsplit: after "//" the network location runs to the next "/".
UrlNetloc(u) ==
    LET rest == AfterScheme(u)
    IN  IF Len(rest) >= 2 /\ rest[1] = "/" /\ rest[2] = "/"
        THEN LET tail == SubSeq(rest, 3, Len(rest))
             IN  SubSeq(tail, 1, LeadingIn(tail, 1, Len(tail), UrlTokens \ {"/"}))
        ELSE << >>

\* urlsplit raises ValueError for a bracket that is not closed.
UrlParseRaises(u) == \E i \in 1..Len(UrlNetloc(u)) : UrlNetloc(u)[i] = "["

\* A validation that looks at the scheme before the network location.
ValidateUrlSchemeFirst(url) ==
    LET stripped == StripChars(url, {" "})
    IN  IF stripped = << >> THEN Raised("URL cannot be empty", << >>)
        ELSE IF UrlParseRaises(stripped) THEN Raised("Invalid URL format", << >>)
        ELSE IF UrlScheme(stripped) # << >> /\ UrlScheme(stripped) \notin {<<"http">>, <<"https">>}
        THEN Raised("Unsupported URL scheme", << >>)
        ELSE IF UrlScheme(stripped) = << >> \/ UrlNetloc(stripped) = << >>
        THEN Raised("Invalid URL format", << >>)
        ELSE Returned(stripped, << >>)

\* Lines 81-97.
ValidateUrl(url) ==
    LET stripped == StripChars(url, {" "})
    IN  IF stripped = << >> THEN Raised("URL cannot be empty", << >>)
        ELSE IF UrlParseRaises(stripped) THEN Raised("Invalid URL format", << >>)
        ELSE IF UrlScheme(stripped) = << >> \/ UrlNetloc(stripped) = << >>
        THEN Raised("Invalid URL format", << >>)
        ELSE IF UrlScheme(stripped) \notin {<<"http">>, <<"https">>}
        THEN Raised("Unsupported URL scheme", << >>)
        ELSE Returned(stripped, << >>)

UrlRequests(len) == [fn : {"validate_url"}, url : Urls(len)]

CallValidateUrl ==
    /\ request.fn = "validate_url"
    /\ outcome = NoOutcome
    /\ outcome' = ValidateUrl(request.url)
    /\ UNCHANGED request
    /\ UNCHANGED meme_vars
    /\ UNCHANGED system_vars

\* ----- validate_configuration_dict

\* The deepest nesting of a configuration value.
MaxConfigDepth == 2

\* Line 167.
SuspiciousKeys == {"__import__", "__builtins__", "exec", "eval", "compile"}

\* Keys and strings are sequences of pieces; "exec" is one piece.
ConfigKeys == {<<"a">>, <<"exec">>}

ConfigStrings == {<<"ok">>, <<"x", "exec">>}

\* A value: a string, a dictionary (items in insertion order) or a list.
StrValue(str) == [type |-> "str", str |-> str, items |-> << >>, elems |-> << >>]

DictValue(items) == [type |-> "dict", str |-> << >>, items |-> items, elems |-> << >>]

ListValue(elems) == [type |-> "list", str |-> << >>, items |-> << >>, elems |-> elems]

RECURSIVE ConfigValues(_)
\* The values nested at most depth deep, containers holding at most one value.
ConfigValues(depth) ==
    IF depth = 0 THEN {StrValue(str) : str \in ConfigStrings}
    ELSE LET inner == ConfigValues(depth - 1)
         IN  inner
             \cup {DictValue(<< >>), ListValue(<< >>)}
             \cup {DictValue(<<[key |-> k, value |-> v]>>) : k \in ConfigKeys, v \in inner}
             \cup {ListValue(<<v>>) : v \in inner}

\* The configurations: dictionaries of at most two keys.
Configs(depth) ==
    LET values == ConfigValues(depth)
    IN  {<< >>}
        \cup {<<[key |-> k, value |-> v]>> : k \in ConfigKeys, v \in values}
        \cup {c \in {<<[key |-> k1, value |-> v1], [key |-> k2, value |-> v2]>> :
                        k1 \in ConfigKeys, k2 \in ConfigKeys, v1 \in values, v2 \in values} :
                 c[1].key # c[2].key}

\* key in suspicious_keys.
IsSuspiciousKey(key) == Len(key) = 1 /\ key[1] \in SuspiciousKeys

\* any(sus in value for sus in suspicious_keys).
ContainsSuspicious(str) == \E i \in 1..Len(str) : str[i] \in SuspiciousKeys

RECURSIVE CheckDict(_)
\* Lines 169-179: the first item that raises decides; "ok" when none does.
CheckDict(items) ==
    IF items = << >> THEN "ok"
    ELSE LET key   == Head(items).key
             value == Head(items).value
             below == IF value.type = "dict" THEN CheckDict(value.items)
                      ELSE IF value.type = "str" /\ ContainsSuspicious(value.str)
                      THEN "Suspicious configuration value"
                      ELSE "ok"
         IN  IF IsSuspiciousKey(key) THEN "Suspicious configuration key"
             ELSE IF below # "ok" THEN below
             ELSE CheckDict(Tail(items))

\* Lines 166-182.
ValidateConfigurationDict(config) ==
    IF CheckDict(config) # "ok" THEN Raised(CheckDict(config), << >>)
    ELSE Returned(config, << >>)

ConfigRequests(depth) == [fn : {"validate_configuration_dict"}, config : Configs(depth)]

CallValidateConfigurationDict ==
    /\ request.fn = "validate_configuration_dict"
    /\ outcome = NoOutcome
    /\ outcome' = ValidateConfigurationDict(request.config)
    /\ UNCHANGED request
    /\ UNCHANGED meme_vars
    /\ UNCHANGED system_vars

\* ----- the validators, each called once on an input

InitValidation ==
    /\ request \in FilePathRequests(MaxPathLen) \cup TemplateNameRequests(MaxRuns)
                     \cup TextInputRequests(MaxTextLen)
                     \cup SanitizeFilenameRequests(MaxFilenameRuns)
                     \cup UrlRequests(MaxUrlLen) \cup ConfigRequests(MaxConfigDepth)
    /\ outcome = NoOutcome
    /\ top_text = None
    /\ bottom_text = None
    /\ entry = "validation"
    /\ meme_font = NoFont
    /\ image = << >>
    /\ margins = << >>
    /\ ratio_pct = 0
    /\ backend = << >>
    /\ descent = 0
    /\ pc = "idle"
    /\ ret = "done"
    /\ text = ""
    /\ font_size = 0
    /\ max_width = 0
    /\ max_height = 0
    /\ fonts_made = << >>
    /\ measured = << >>
    /\ last_fit = << >>
    /\ dfs_result = 0
    /\ font_size_candidates = << >>
    /\ font = NoFont
    /\ drawn = << >>
    /\ exc = << >>
    /\ events = << >>
    /\ meme = NoImage
    /\ SystemIdle

NextValidation ==
    \/ CallValidateFilePath
    \/ CallValidateTemplateName
    \/ CallValidateTextInput
    \/ CallSanitizeFilename
    \/ CallValidateUrl
    \/ CallValidateConfigurationDict

SpecValidation == InitValidation /\ [][NextValidation]_vars

\* ------------------------------------------- claims about core/validation.py

\* The call of fn has finished.
Called(fn) == request.fn = fn /\ outcome # NoOutcome

RaisedWith(msg) == outcome.kind = "raised" /\ outcome.msg = msg

\* The path string contains "..", or starts with "/etc" or "/proc".
NamedUnsafe ==
    \/ \E i \in 1..(Len(request.path) - 1) :
          request.path[i] = "." /\ request.path[i + 1] = "."
    \/ /\ Len(request.path) >= 2
       /\ request.path[1] = "/"
       /\ request.path[2] \in {"etc", "proc"}

ResolvedPath == Resolve(request.path, request.cwd, request.link)

\* What validate_file_path does with a path that is not unsafe and resolves.
ExistenceDecides ==
    IF request.must_exist /\ ResolvedPath \notin Existing
    THEN RaisedWith("File does not exist")
    ELSE outcome.kind = "returned" /\ outcome.value = ResolvedPath

\* C17 as stated: validate_file_path raises 'Unsafe file path' for a path
\* whose string contains '..' or starts with '/etc' or '/proc', whatever
\* must_exist is and without touching the file system; for ANY other path it
\* raises 'File does not exist' iff must_exist and the resolved path does not
\* exist, and otherwise returns the resolved path.
C17_UnsafeElseExistence ==
    Called("validate_file_path") =>
        IF NamedUnsafe THEN RaisedWith("Unsafe file path") /\ outcome.did = << >>
        ELSE ExistenceDecides

\* C17 amended: as above, except that a path that is not unsafe and whose
\* resolution raises OSError or ValueError (an embedded NUL) raises
\* 'Invalid file path'; the existence rule holds for the paths that resolve.
C17_UnsafeInvalidElseExistence ==
    Called("validate_file_path") =>
        IF NamedUnsafe THEN RaisedWith("Unsafe file path") /\ outcome.did = << >>
        ELSE IF \E i \in 1..Len(request.path) : request.path[i] = "NUL"
        THEN RaisedWith("Invalid file path")
        ELSE ExistenceDecides

\* A safe, resolvable, missing path was refused because it must exist.
C17_Witness ==
    /\ Called("validate_file_path")
    /\ ~NamedUnsafe
    /\ request.must_exist
    /\ ResolvedPath \notin Existing
    /\ RaisedWith("File does not exist")

\* C18: whatever the input, the working directory and the symbolic links,
\* a path validate_file_path returns is not under /etc or /proc.
C18_NeverUnderSystemDir ==
    (Called("validate_file_path") /\ outcome.kind = "returned") =>
        (outcome.value = << >> \/ Head(outcome.value) \notin {<<"etc">>, <<"proc">>})

\* The code points str.strip() removes, below 256.
Whitespace == {9, 10, 11, 12, 13, 28, 29, 30, 31, 32, 133, 160}

\* The characters a template name must not hold.
Forbidden == {60, 62, 58, 34, 47, 92, 124, 63, 42} \cup 0..31

RECURSIVE DropLeadingSpaceRuns(_)
DropLeadingSpaceRuns(runs) ==
    IF runs = << >> \/ Head(runs).ch \notin Whitespace THEN runs
    ELSE DropLeadingSpaceRuns(Tail(runs))

RECURSIVE DropTrailingSpaceRuns(_)
DropTrailingSpaceRuns(runs) ==
    IF runs = << >> \/ runs[Len(runs)].ch \notin Whitespace THEN runs
    ELSE DropTrailingSpaceRuns(SubSeq(runs, 1, Len(runs) - 1))

\* The name without its leading and trailing whitespace, from its runs.
StrippedName == Expand(DropTrailingSpaceRuns(DropLeadingSpaceRuns(request.runs)))

HasForbidden(s) == \E i \in 1..Len(s) : s[i] \in Forbidden

\* C19: validate_template_name returns the stripped name; a returned name is
\* non-empty, at most 255 characters and free of < > : " / \ | ? * and of
\* 0x00-0x1f; the checks come in the order empty, length after stripping,
\* invalid characters.
C19_StrippedAndOrderedChecks ==
    Called("validate_template_name") =>
        /\ IF StrippedName = << >> THEN RaisedWith("Template name cannot be empty")
           ELSE IF Len(StrippedName) > 255
           THEN RaisedWith("Template name too long (max 255 characters)")
           ELSE IF HasForbidden(StrippedName)
           THEN RaisedWith("Template name contains invalid characters")
           ELSE outcome.kind = "returned" /\ outcome.value = StrippedName
        /\ outcome.kind = "returned" =>
              /\ outcome.value # << >>
              /\ Len(outcome.value) <= 255
              /\ ~HasForbidden(outcome.value)

\* An over-long name with a forbidden character was called too long.
C19_Witness ==
    /\ Called("validate_template_name")
    /\ Len(StrippedName) > 255
    /\ HasForbidden(StrippedName)
    /\ RaisedWith("Template name too long (max 255 characters)")

\* 0x00-0x08, 0x0b, 0x0c, 0x0e-0x1f and 0x7f.
RemovedControl == 0..8 \cup {11, 12} \cup 14..31 \cup {127}

\* C20: validate_text_input returns "" for None, raises 'Text too long' iff
\* the raw input is longer than max_length, and otherwise returns the input
\* without the characters 0x00-0x08, 0x0b, 0x0c, 0x0e-0x1f, 0x7f and with all
\* others in order; the result is no longer than max_length and the function
\* leaves its own result unchanged.
C20_CleanedBoundedIdempotent ==
    Called("validate_text_input") =>
        IF request.is_none THEN outcome.kind = "returned" /\ outcome.value = << >>
        ELSE IF Len(request.text) > request.max_length THEN RaisedWith("Text too long")
        ELSE /\ outcome.kind = "returned"
             /\ outcome.value = SelectSeq(request.text, LAMBDA c : c \notin RemovedControl)
             /\ Len(outcome.value) <= request.max_length
             /\ ValidateTextInput(FALSE, outcome.value, request.max_length)
                   = Returned(outcome.value, << >>)

\* A text lost a control character and kept a tab next to a letter.
C20_Witness ==
    /\ Called("validate_text_input")
    /\ outcome.kind = "returned"
    /\ Len(outcome.value) = 2
    /\ Len(request.text) = 3
    /\ \E i \in 1..2 : outcome.value[i] = 9

RECURSIVE DropLeadingRunsOf(_, _)
DropLeadingRunsOf(runs, chars) ==
    IF runs = << >> \/ Head(runs).ch \notin chars THEN runs
    ELSE DropLeadingRunsOf(Tail(runs), chars)

RECURSIVE DropTrailingRunsOf(_, _)
DropTrailingRunsOf(runs, chars) ==
    IF runs = << >> \/ runs[Len(runs)].ch \notin chars THEN runs
    ELSE DropTrailingRunsOf(SubSeq(runs, 1, Len(runs) - 1), chars)

\* The input of sanitize_filename without the spaces and dots at its ends,
\* each forbidden character replaced by "_".
ReplacedFilename ==
    LET kept == DropTrailingRunsOf(DropLeadingRunsOf(request.runs, {32, 46}), {32, 46})
    IN  Expand([i \in 1..Len(kept) |->
                   [ch |-> IF kept[i].ch \in Forbidden THEN 95 ELSE kept[i].ch,
                    n  |-> kept[i].n]])

\* The input is empty, or holds only spaces and dots.
OnlySpacesAndDots == \A i \in 1..Len(request.runs) : request.runs[i].ch \in {32, 46}

\* C21: sanitize_filename returns a non-empty name of at most 255 characters
\* without < > : " / \ | ? * and 0x00-0x1f, each of them replaced by "_";
\* an input that is empty, or empty once spaces and dots are stripped, gives
\* "untitled".
C21_SafeNonEmptyBounded ==
    Called("sanitize_filename") =>
        /\ outcome.kind = "returned"
        /\ outcome.value # << >>
        /\ Len(outcome.value) <= 255
        /\ ~HasForbidden(outcome.value)
        /\ OnlySpacesAndDots => outcome.value = <<117, 110, 116, 105, 116, 108, 101, 100>>
        /\ ~OnlySpacesAndDots =>
              /\ Len(outcome.value) = IF Len(ReplacedFilename) > 255 THEN 255
                                      ELSE Len(ReplacedFilename)
              /\ outcome.value = SubSeq(ReplacedFilename, 1, Len(outcome.value))

\* A name with a forbidden character came back with "_" in its place.
C21_Witness ==
    /\ Called("sanitize_filename")
    /\ \E i \in 1..Len(request.runs) : request.runs[i].ch = 60
    /\ \E i \in 1..Len(outcome.value) : outcome.value[i] = 95
    /\ Len(outcome.value) = 255

\* C23: the name sanitize_filename returns neither begins nor ends with a
\* space or a dot, inputs longer than 255 characters included, so sanitizing
\* the result again changes nothing.
C23_NoEdgeSpaceOrDot ==
    Called("sanitize_filename") =>
        /\ outcome.value[1] \notin {32, 46}
        /\ outcome.value[Len(outcome.value)] \notin {32, 46}
        /\ SanitizeFilename(outcome.value) = outcome.value

\* The URL without the whitespace at its ends.
StrippedUrl ==
    LET first == CHOOSE i \in 1..Len(request.url) :
                    request.url[i] # " " /\ \A j \in 1..(i - 1) : request.url[j] = " "
        last  == CHOOSE i \in 1..Len(request.url) :
                    request.url[i] # " " /\ \A j \in (i + 1)..Len(request.url) : request.url[j] = " "
    IN  IF \A i \in 1..Len(request.url) : request.url[i] = " " THEN << >>
        ELSE SubSeq(request.url, first, last)

\* What validate_url does with a URL that is not empty and that parses.
SchemeAndNetlocDecide ==
    IF UrlScheme(StrippedUrl) = << >> \/ UrlNetloc(StrippedUrl) = << >>
    THEN RaisedWith("Invalid URL format")
    ELSE IF UrlScheme(StrippedUrl) \in {<<"http">>, <<"https">>}
    THEN outcome.kind = "returned" /\ outcome.value = StrippedUrl
    ELSE RaisedWith("Unsupported URL scheme")

\* C22 as stated: validate_url returns the stripped URL iff it has a
\* non-empty network location and its scheme is http or https; an empty or
\* whitespace-only URL raises 'cannot be empty', a URL without scheme or
\* network location raises 'Invalid URL format', any other scheme raises
\* 'Unsupported URL scheme'.
C22_SchemeAndNetloc ==
    Called("validate_url") =>
        IF StrippedUrl = << >> THEN RaisedWith("URL cannot be empty")
        ELSE SchemeAndNetlocDecide

\* C22 amended: as above, and a URL that urlparse rejects (a network
\* location with a bracket that is not closed) raises 'Invalid URL format'
\* whatever its scheme.
C22_SchemeNetlocOrUnparsable ==
    Called("validate_url") =>
        IF StrippedUrl = << >> THEN RaisedWith("URL cannot be empty")
        ELSE IF \E i \in 1..Len(UrlNetloc(StrippedUrl)) : UrlNetloc(StrippedUrl)[i] = "["
        THEN RaisedWith("Invalid URL format")
        ELSE SchemeAndNetlocDecide

\* A URL with spaces around it and an http scheme came back stripped.
C22_Witness ==
    /\ Called("validate_url")
    /\ outcome.kind = "returned"
    /\ outcome.value # request.url
    /\ UrlScheme(outcome.value) = <<"http">>

RECURSIVE SuspiciousIn(_)
\* A suspicious key, or a string with a suspicious word, occurs in the value
\* at any depth, inside dictionaries and lists.
SuspiciousIn(value) ==
    \/ value.type = "str" /\ \E i \in 1..Len(value.str) :
          value.str[i] \in {"__import__", "__builtins__", "exec", "eval", "compile"}
    \/ \E i \in 1..Len(value.items) :
          \/ value.items[i].key \in {<<"__import__">>, <<"__builtins__">>, <<"exec">>,
                                     <<"eval">>, <<"compile">>}
          \/ SuspiciousIn(value.items[i].value)
    \/ \E i \in 1..Len(value.elems) : SuspiciousIn(value.elems[i])

\* C24: validate_configuration_dict raises ValidationError whenever a
\* suspicious key, or a string value containing a suspicious word, occurs
\* anywhere in the configuration, at any depth and inside lists; otherwise
\* it returns the same dictionary.
C24_SuspiciousAnywhereRaises ==
    Called("validate_configuration_dict") =>
        IF SuspiciousIn(DictValue(request.config)) THEN outcome.kind = "raised"
        ELSE outcome.kind = "returned" /\ outcome.value = request.config

\* ------------------------------------------- settings.py and container.py

\* The most calls of load_configuration and get_configuration in a run.
MaxCalls == 3

\* Nothing is being rendered or validated.
RenderingIdle ==
    /\ top_text = None
    /\ bottom_text = None
    /\ entry = "system"
    /\ meme_font = NoFont
    /\ image = << >>
    /\ margins = << >>
    /\ ratio_pct = 0
    /\ backend = << >>
    /\ descent = 0
    /\ pc = "idle"
    /\ ret = "done"
    /\ text = ""
    /\ font_size = 0
    /\ max_width = 0
    /\ max_height = 0
    /\ fonts_made = << >>
    /\ measured = << >>
    /\ last_fit = << >>
    /\ dfs_result = 0
    /\ font_size_candidates = << >>
    /\ font = NoFont
    /\ drawn = << >>
    /\ exc = << >>
    /\ events = << >>
    /\ meme = NoImage
    /\ request = NoValidation
    /\ outcome = NoOutcome

\* Lines 409-410: None stands for get_config_path().
RequestedPath(config_path) == IF config_path = None THEN "user_config" ELSE config_path

\* Line 435: dump_configuration writes to get_config_path().
DumpPath(config_path) == "user_config"

\* Lines 409-424: load_configuration on the file system fs; n Configuration
\* objects exist. The result holds the file system afterwards, the object
\* returned (NoConfiguration when the call raised) and the exception.
LoadConfiguration(fs, can_write, config_path, n) ==
    LET path == RequestedPath(config_path)
    IN  IF fs[path] = "invalid"
        THEN [files |-> fs, objects |-> n, configuration |-> NoConfiguration,
              exc |-> "invalid configuration", found |-> TRUE]
        ELSE IF fs[path] # "absent"
        THEN [files |-> fs, objects |-> n + 1,
              configuration |-> [id |-> n + 1, content |-> fs[path]],
              exc |-> "none", found |-> TRUE]
        ELSE IF ~can_write
        THEN [files |-> fs, objects |-> n + 1, configuration |-> NoConfiguration,
              exc |-> "OSError", found |-> FALSE]
        ELSE [files |-> [fs EXCEPT ![DumpPath(config_path)] = "defaults"],
              objects |-> n + 1,
              configuration |-> [id |-> n + 1, content |-> "defaults"],
              exc |-> "none", found |-> FALSE]

\* A direct call of load_configuration.
CallLoadConfiguration ==
    \E config_path \in {None, "custom"} :
        LET r == LoadConfiguration(files, writable, config_path, objects)
        IN  /\ Len(history) < MaxCalls
            /\ files' = r.files
            /\ objects' = r.objects
            /\ history' = Append(history,
                                 [fn |-> "load_configuration", path |-> config_path,
                                  loaded |-> TRUE, found |-> r.found,
                                  configuration |-> r.configuration, exc |-> r.exc,
                                  exists_after |-> r.files[RequestedPath(config_path)] # "absent"])
            /\ UNCHANGED <<writable, provider>>
            /\ UNCHANGED <<meme_vars, validation_vars, discovery_vars, pull_vars>>

\* A provider that loads on every call.
NeedsLoadAlways(configuration) == TRUE

\* Line 34: self._configuration is None.
NeedsLoad(configuration) == configuration = NoConfiguration

\* Lines 32-36: FileConfigurationProvider.get_configuration.
CallGetConfiguration ==
    LET r == LoadConfiguration(files, writable, provider.config_path, objects)
    IN  /\ Len(history) < MaxCalls
        /\ IF NeedsLoad(provider.configuration)
           THEN /\ files' = r.files
                /\ objects' = r.objects
                /\ provider' = IF r.exc = "none"
                               THEN [provider EXCEPT !.configuration = r.configuration]
                               ELSE provider
                /\ history' = Append(history,
                                     [fn |-> "get_configuration", path |-> provider.config_path,
                                      loaded |-> TRUE, found |-> r.found,
                                      configuration |-> r.configuration, exc |-> r.exc,
                                      exists_after |->
                                          r.files[RequestedPath(provider.config_path)] # "absent"])
           ELSE /\ history' = Append(history,
                                     [fn |-> "get_configuration", path |-> provider.config_path,
                                      loaded |-> FALSE, found |-> FALSE,
                                      configuration |-> provider.configuration, exc |-> "none",
                                      exists_after |->
                                          files[RequestedPath(provider.config_path)] # "absent"])
                /\ UNCHANGED <<files, objects, provider>>
        /\ UNCHANGED writable
        /\ UNCHANGED <<meme_vars, validation_vars, discovery_vars, pull_vars>>

\* Someone else writes or removes a configuration file.
EnvChangeFile ==
    \E p \in ConfigPaths, c \in Contents \ {"defaults"} :
        /\ files[p] # c
        /\ files' = [files EXCEPT ![p] = c]
        /\ UNCHANGED <<writable, provider, objects, history>>
        /\ UNCHANGED <<meme_vars, validation_vars, discovery_vars, pull_vars>>

InitConfig ==
    /\ RenderingIdle
    /\ files \in [ConfigPaths -> Contents \ {"defaults"}]
    /\ writable \in BOOLEAN
    /\ provider \in [config_path : {None, "custom"}, configuration : {NoConfiguration}]
    /\ objects = 0
    /\ history = << >>
    /\ DiscoveryIdle
    /\ PullIdle

NextConfig ==
    \/ CallLoadConfiguration
    \/ CallGetConfiguration
    \/ EnvChangeFile

SpecConfig == InitConfig /\ [][NextConfig]_vars

\* -------------------------------- claims about settings.py and container.py

\* C25: when the file at the requested config_path is not found,
\* load_configuration generates the configuration from the defaults, saves
\* it and returns it, so that the file then exists at the requested path
\* and a next load with the same path reads it.
C25_SavedAtRequestedPath ==
    \A i \in 1..Len(history) :
        (history[i].loaded /\ ~history[i].found /\ history[i].exc = "none") =>
            /\ history[i].configuration.content = "defaults"
            /\ history[i].exists_after

\* The calls of get_configuration so far, in order.
ProviderCalls == SelectSeq(history, LAMBDA h : h.fn = "get_configuration")

\* C30: once a get_configuration call of the provider has loaded the
\* configuration, no later call loads from disk and each returns that same
\* object; a call whose load raised leaves the provider unloaded, so the
\* next call loads again.
C30_LoadedOnceThenCached ==
    /\ \A i \in 1..Len(ProviderCalls) : \A j \in (i + 1)..Len(ProviderCalls) :
          ProviderCalls[i].exc = "none" =>
              /\ ~ProviderCalls[j].loaded
              /\ ProviderCalls[j].exc = "none"
              /\ ProviderCalls[j].configuration = ProviderCalls[i].configuration
    /\ \A i \in 1..(Len(ProviderCalls) - 1) :
          ProviderCalls[i].exc # "none" => ProviderCalls[i + 1].loaded
    /\ (\A i \in 1..Len(ProviderCalls) : ProviderCalls[i].exc # "none")
          => provider.configuration = NoConfiguration

\* The provider failed, then loaded, then answered from memory although the
\* file had changed meanwhile.
C30_Witness ==
    /\ Len(ProviderCalls) = 3
    /\ ProviderCalls[1].exc # "none"
    /\ ProviderCalls[2].exc = "none" /\ ProviderCalls[2].loaded
    /\ ~ProviderCalls[3].loaded
    /\ files[RequestedPath(provider.config_path)] # ProviderCalls[3].configuration.content

\* ------------------------------- settings.py: TemplatesConfiguration

\* The most accesses of discovered_templates in a run.
MaxAccesses == 2

\* The template files there may be. "f" is a search path that is a file;
\* d1 and d2 are directories. A stem is a sequence of pieces.
TemplateFiles ==
    {[at |-> "d1", rank |-> 1, stem |-> <<"my", "_", "cat">>, ext |-> "png"],
     [at |-> "d1", rank |-> 2, stem |-> <<"my", "-", "cat">>, ext |-> "png"],
     [at |-> "d1", rank |-> 3, stem |-> <<"my", "_", "cat">>, ext |-> "jpg"],
     [at |-> "d2", rank |-> 4, stem |-> <<"dog">>, ext |-> "jpg"],
     [at |-> "f",  rank |-> 5, stem |-> <<"dog">>, ext |-> "png"]}

SearchPaths == {"d1", "d2", "f"}

\* helper_methods.py 66-70: underscores and hyphens become spaces.
NiceName(stem) == [i \in 1..Len(stem) |-> IF stem[i] \in {"_", "-"} THEN " " ELSE stem[i]]

\* Line 195: Template.name.
TemplateName(file) == NiceName(file.stem)

RECURSIVE SortedBy(_, _)
\* The files of a set in the order the directory listing gives them.
SortedBy(fileset, descending) ==
    IF fileset = {} THEN << >>
    ELSE LET first == CHOOSE f \in fileset :
                         \A g \in fileset : IF descending THEN g.rank <= f.rank
                                            ELSE f.rank <= g.rank
         IN  <<first>> \o SortedBy(fileset \ {first}, descending)

\* Line 271: path.glob("*.extension").
Glob(on_disk, path, extension, descending) ==
    SortedBy({f \in on_disk : f.at = path /\ f.ext = extension}, descending)

RECURSIVE GlobAll(_, _, _, _)
\* Lines 270-271: the extensions in turn.
GlobAll(on_disk, path, extensions, descending) ==
    IF extensions = << >> THEN << >>
    ELSE Glob(on_disk, path, Head(extensions), descending)
         \o GlobAll(on_disk, path, Tail(extensions), descending)

RECURSIVE Scan(_, _, _, _)
\* Lines 251-271: the files the loops come across, in order.
Scan(on_disk, search_paths, extensions, descending) ==
    IF search_paths = << >> THEN << >>
    ELSE LET path == Head(search_paths)
             here == IF path = "f"
                     THEN SortedBy({f \in on_disk : f.at = "f"}, descending)
                     ELSE GlobAll(on_disk, path, extensions, descending)
         IN  here \o Scan(on_disk, Tail(search_paths), extensions, descending)

\* An insertion that lets the later template win.
InsertOverwriting(templates, file) ==
    [n \in DOMAIN templates \cup {TemplateName(file)} |->
        IF n = TemplateName(file) THEN file ELSE templates[n]]

\* Lines 255-265 and 274-285: a clash keeps the template already there.
Insert(templates, file) ==
    IF TemplateName(file) \in DOMAIN templates THEN templates
    ELSE [n \in DOMAIN templates \cup {TemplateName(file)} |->
             IF n = TemplateName(file) THEN file ELSE templates[n]]

RECURSIVE InsertAll(_, _)
InsertAll(templates, found) ==
    IF found = << >> THEN templates
    ELSE InsertAll(Insert(templates, Head(found)), Tail(found))

\* The empty dictionary.
NoTemplates == [n \in {} |-> 0]

\* Lines 249-286.
DiscoveredTemplates(on_disk, config) ==
    InsertAll(NoTemplates,
              Scan(on_disk, config.search_paths, config.extensions, config.descending))

\* Line 235: cached_property: the first access computes, later ones do not.
AccessDiscoveredTemplates ==
    /\ Len(results) < MaxAccesses
    /\ IF cached = << >>
       THEN /\ cached' = <<DiscoveredTemplates(disk, tconfig)>>
            /\ scans' = Append(scans, Scan(disk, tconfig.search_paths, tconfig.extensions,
                                           tconfig.descending))
            /\ results' = Append(results, DiscoveredTemplates(disk, tconfig))
       ELSE /\ results' = Append(results, cached[1])
            /\ UNCHANGED <<cached, scans>>
    /\ UNCHANGED <<disk, tconfig>>
    /\ UNCHANGED <<meme_vars, validation_vars, config_vars, pull_vars>>

\* A template file appears or disappears after the first access.
EnvChangeDisk ==
    \E f \in TemplateFiles :
        /\ cached # << >>
        /\ disk' = IF f \in disk THEN disk \ {f} ELSE disk \cup {f}
        /\ UNCHANGED <<tconfig, cached, scans, results>>
        /\ UNCHANGED <<meme_vars, validation_vars, config_vars, pull_vars>>

RECURSIVE Orders(_)
\* The orders in which a set may be iterated.
Orders(S) ==
    IF S = {} THEN {<< >>}
    ELSE UNION {{<<x>> \o o : o \in Orders(S \ {x})} : x \in S}

InitDiscovery ==
    /\ RenderingIdle
    /\ ConfigIdle
    /\ disk \in SUBSET TemplateFiles
    /\ \E paths \in SUBSET SearchPaths :
          tconfig \in [search_paths : Orders(paths),
                       extensions : {<<"png", "jpg">>, <<"jpg", "png">>, <<"png">>},
                       descending : BOOLEAN]
    /\ cached = << >>
    /\ scans = << >>
    /\ results = << >>
    /\ PullIdle

NextDiscovery ==
    \/ AccessDiscoveredTemplates
    \/ EnvChangeDisk

SpecDiscovery == InitDiscovery /\ [][NextDiscovery]_vars

\* C29: discovered_templates maps each name to one template of that name;
\* of the templates with one name the one discovered first is kept and the
\* later ones are skipped; the result is computed once per instance.
C29_FirstOfEachNameOnce ==
    /\ Len(scans) <= 1
    /\ \A a \in 1..Len(results) :
          LET found == scans[1]
              dict  == results[a]
          IN  /\ dict = results[1]
              /\ DOMAIN dict = {NiceName(found[i].stem) : i \in 1..Len(found)}
              /\ \A name \in DOMAIN dict :
                    /\ NiceName(dict[name].stem) = name
                    /\ \E i \in 1..Len(found) :
                          /\ found[i] = dict[name]
                          /\ \A j \in 1..(i - 1) : NiceName(found[j].stem) # name

\* Two files of one name were found, the disk changed, and a second access
\* still gave the first result.
C29_Witness ==
    /\ Len(results) = 2
    /\ \E i, j \in 1..Len(scans[1]) :
          i < j /\ NiceName(scans[1][i].stem) = NiceName(scans[1][j].stem)
    /\ DiscoveredTemplates(disk, tconfig) # results[2]

\* ------------------- cli_commands/templates.py: pull, remote_templates.py

\* The most templates in the file given with --from-file.
MaxFileTemplates == 2

\* The URLs: u1 ends in "a.png", u2 in "b.png"; "bad" is a URL whose path
\* has no last component ("" or "/").
PullUrls == {"u1", "u2", "bad"}

\* Path(url).name and Path(url).suffix, as stem and suffix.
UrlStem(url) == IF url = "u1" THEN "a" ELSE IF url = "u2" THEN "b" ELSE ""

UrlSuffix(url) == IF url = "bad" THEN "" ELSE ".png"

\* TemplateToPull: a name (or None) and a URL; equal when both are equal.
TemplatesToPull ==
    [name : {None, "a"}, url : {"u1", "bad"}] \cup {[name |-> None, url |-> "u2"]}

\* The templates of the packaged default list.
DefaultTemplates == <<[name |-> None, url |-> "u1"], [name |-> None, url |-> "u2"]>>

\* The files of the templates directory, as stem and suffix.
PullFiles == {<<"a", ".png">>, <<"b", ".png">>, <<"a", "">>}

\* Lines 35-46: the file name; a given name has no suffix and gets the URL's.
FileNameOf(t) ==
    IF t.name = None THEN <<UrlStem(t.url), UrlSuffix(t.url)>>
    ELSE <<t.name, UrlSuffix(t.url)>>

\* A download that writes the response body before it looks at the status.
PullImageFromUrlWritingFirst(dir, t, answer) ==
    IF t.name = None /\ UrlStem(t.url) = ""
    THEN [dir |-> dir, exc |-> "RemoteTemplateError", steps |-> << >>]
    ELSE IF answer = "request_error"
    THEN [dir |-> dir, exc |-> "RequestException", steps |-> <<"get">>]
    ELSE IF answer = "http_error"
    THEN [dir |-> [dir EXCEPT ![FileNameOf(t)] = t.url], exc |-> "RequestException",
          steps |-> <<"get", "write", "raise_for_status">>]
    ELSE [dir |-> [dir EXCEPT ![FileNameOf(t)] = t.url], exc |-> "none",
          steps |-> <<"get", "write", "raise_for_status">>]

\* Lines 33-58: pull_image_from_url on the directory dir, the server giving
\* answer; the result holds the directory afterwards, the exception and the
\* steps taken.
PullImageFromUrl(dir, t, answer) ==
    IF t.name = None /\ UrlStem(t.url) = ""
    THEN [dir |-> dir, exc |-> "RemoteTemplateError", steps |-> << >>]
    ELSE IF answer = "request_error"
    THEN [dir |-> dir, exc |-> "RequestException", steps |-> <<"get">>]
    ELSE IF answer = "http_error"
    THEN [dir |-> dir, exc |-> "RequestException", steps |-> <<"get", "raise_for_status">>]
    ELSE [dir |-> [dir EXCEPT ![FileNameOf(t)] = t.url], exc |-> "none",
          steps |-> <<"get", "raise_for_status", "write">>]

\* Lines 105-119: the list of the templates to pull, and its set.
PullStart ==
    /\ pull_pc = "start"
    /\ to_pull_list' = options.url \o options.from_file
                          \o (IF options.defaults THEN DefaultTemplates ELSE << >>)
    /\ remaining' = {to_pull_list'[i] : i \in 1..Len(to_pull_list')}
    /\ pull_pc' = "loop"
    /\ UNCHANGED <<options, remote, target_dir, attempts, failed_downloads, reported>>
    /\ UNCHANGED <<meme_vars, validation_vars, config_vars, discovery_vars>>

\* Lines 124-146: one turn of the loop over to_pull_set.
PullOne ==
    \E t \in remaining :
        LET r == PullImageFromUrl(target_dir, t, remote[t.url])
        IN  /\ pull_pc = "loop"
            /\ remaining' = remaining \ {t}
            /\ target_dir' = r.dir
            /\ attempts' = Append(attempts,
                                  [template |-> t, exc |-> r.exc, steps |-> r.steps,
                                   before |-> target_dir, after |-> r.dir])
            /\ failed_downloads' = IF r.exc = "RequestException"
                                   THEN Append(failed_downloads, <<t.name, t.url>>)
                                   ELSE failed_downloads
            /\ pull_pc' = IF r.exc = "RemoteTemplateError" THEN "aborted" ELSE "loop"
            /\ UNCHANGED <<options, remote, to_pull_list, reported>>
            /\ UNCHANGED <<meme_vars, validation_vars, config_vars, discovery_vars>>

\* Lines 148-149: the report after the loop.
PullReport ==
    /\ pull_pc = "loop"
    /\ remaining = {}
    /\ reported' = Len(to_pull_list) - Len(failed_downloads)
    /\ pull_pc' = "done"
    /\ UNCHANGED <<options, remote, target_dir, to_pull_list, remaining, attempts,
                   failed_downloads>>
    /\ UNCHANGED <<meme_vars, validation_vars, config_vars, discovery_vars>>

InitPull ==
    /\ RenderingIdle
    /\ ConfigIdle
    /\ DiscoveryIdle
    /\ options \in [url : {<< >>, <<[name |-> None, url |-> "u1"]>>,
                           <<[name |-> "a", url |-> "u1"]>>},
                    from_file : SeqsUpTo(TemplatesToPull, MaxFileTemplates),
                    defaults : BOOLEAN]
    /\ \E a1 \in {"ok", "http_error", "request_error"}, a2 \in {"ok", "request_error"} :
          remote = [u \in PullUrls |-> IF u = "u1" THEN a1 ELSE IF u = "u2" THEN a2
                                       ELSE "request_error"]
    /\ \E old \in {"absent", "old"} :
          target_dir = [f \in PullFiles |-> IF f = <<"a", ".png">> THEN old ELSE "absent"]
    /\ pull_pc = "start"
    /\ to_pull_list = << >>
    /\ remaining = {}
    /\ attempts = << >>
    /\ failed_downloads = << >>
    /\ reported = 0

NextPull ==
    \/ PullStart
    \/ PullOne
    \/ PullReport

SpecPull == InitPull /\ [][NextPull]_vars

\* ----------------------------------------- claims about the pull command

\* How many calls of pull_image_from_url returned.
Downloaded == Cardinality({i \in 1..Len(attempts) : attempts[i].exc = "none"})

\* C26: the number reported as successfully pulled is the number of
\* templates downloaded without error in the run, whatever --url,
\* --from-file and --defaults name, the same template several times included.
C26_ReportedIsDownloaded ==
    pull_pc = "done" => reported = Downloaded

\* The command has ended, with its report or with an exception.
PullEnded == pull_pc \in {"done", "aborted"}

\* C27: every distinct (name, url) template is attempted exactly once, and a
\* template that fails, by a request error or by a file name that cannot be
\* determined, is put on the failed list and the others are still attempted.
C27_EachOnceFailuresListed ==
    /\ \A i, j \in 1..Len(attempts) : attempts[i].template = attempts[j].template => i = j
    /\ PullEnded =>
          /\ \A k \in 1..Len(to_pull_list) :
                \E i \in 1..Len(attempts) : attempts[i].template = to_pull_list[k]
          /\ \A i \in 1..Len(attempts) :
                attempts[i].exc # "none" =>
                   \E f \in 1..Len(failed_downloads) :
                      failed_downloads[f] = <<attempts[i].template.name, attempts[i].template.url>>

\* C28: pull_image_from_url writes the target file only after the response
\* has come with a success status: when the file name cannot be determined,
\* the request fails or the status is an error, the directory is as before.
C28_WriteOnlyAfterSuccess ==
    \A i \in 1..Len(attempts) :
        /\ attempts[i].exc # "none" => attempts[i].after = attempts[i].before
        /\ attempts[i].after # attempts[i].before =>
              attempts[i].steps = <<"get", "raise_for_status", "write">>
        /\ \A k \in 1..Len(attempts[i].steps) :
              attempts[i].steps[k] = "write" =>
                 /\ k = 3
                 /\ attempts[i].steps[1] = "get"
                 /\ attempts[i].steps[2] = "raise_for_status"

\* One download got an error status and left an existing file alone, and
\* another one overwrote it.
C28_Witness ==
    \E i, j \in 1..Len(attempts) :
        /\ attempts[i].exc = "RequestException"
        /\ attempts[i].steps = <<"get", "raise_for_status">>
        /\ attempts[i].before[<<"a", ".png">>] = "old"
        /\ attempts[j].exc = "none"
        /\ attempts[j].before[<<"b", ".png">>] = "absent"
        /\ attempts[j].after[<<"b", ".png">>] = "u2"

====
